---- MODULE Spec2Model ----
(***************************************************************************)
(* Model of claun's process executor (src/claun/core/executor.py):         *)
(* Executor.run, Executor._build_args and Executor._extract_session_id,    *)
(* together with the subprocess, its two pipes, the log file and the       *)
(* caller's callback that run talks to.                                    *)
(*                                                                         *)
(* Text is modelled character by character: a Python str (and a bytes      *)
(* object) is a sequence of one-character strings, so "ab\n" is            *)
(* <<"a", "b", "\n">> and "" is <<>>.  Python's None is the one-element    *)
(* sequence <<"None">>, which is no text because "None" is no character.   *)
(***************************************************************************)
EXTENDS Integers, Sequences, FiniteSets, TLC

\* ------------------------------------------------------------------------
\* Bounds of the model
\* ------------------------------------------------------------------------

\* number of stdout lines one subprocess writes at most
MaxStdoutLines == 2

\* number of lines a pipe buffers before the writer blocks
PipeCapacity == 1

\* number of stderr lines one subprocess writes at most (one more than a
\* pipe holds, so that a writer can fill the stderr pipe and block)
MaxStderrLines == PipeCapacity + 1

\* number of lines of the text _extract_session_id is called with on its own
MaxExtractLines == 2

\* ------------------------------------------------------------------------
\* Python values
\* ------------------------------------------------------------------------

None == <<"None">>

\* truth value of an Optional[str]: None and "" are false
Truthy(v) == v # None /\ v # <<>>

Digits == {"0", "1", "2", "3", "4", "5", "6", "7", "8", "9"}

Letters ==
  {"a", "b", "c", "d", "e", "f", "g", "h", "i", "j", "k", "l", "m",
   "n", "o", "p", "q", "r", "s", "t", "u", "v", "w", "x", "y", "z",
   "A", "B", "C", "D", "E", "F", "G", "H", "I", "J", "K", "L", "M",
   "N", "O", "P", "Q", "R", "S", "T", "U", "V", "W", "X", "Y", "Z"}

\* the characters c with c.isalnum()
AlnumChars == Letters \cup Digits

\* the characters str.strip() removes
Whitespace == {" ", "\t", "\n", "\r", "\f"}

\* a byte that is no valid UTF-8, and the character U+FFFD it decodes to
InvalidByte == "xFF"
ReplacementChar == "uFFFD"

\* n copies of the character c
Rep(c, n) == [i \in 1..n |-> c]

\* "".join(lines)
RECURSIVE Join(_)
Join(lines) ==
  IF lines = <<>> THEN <<>> ELSE Head(lines) \o Join(Tail(lines))

\* s.split(sep): the pieces between the separators, empty pieces kept
RECURSIVE Split(_, _)
Split(s, sep) ==
  IF \E i \in 1..Len(s) : s[i] = sep
  THEN LET i == CHOOSE k \in 1..Len(s) :
                  s[k] = sep /\ \A j \in 1..(k - 1) : s[j] # sep
       IN  <<SubSeq(s, 1, i - 1)>> \o Split(SubSeq(s, i + 1, Len(s)), sep)
  ELSE <<s>>

\* s.lstrip(): from the first character that is no whitespace
LStrip(s) ==
  LET keep == {i \in 1..Len(s) : s[i] \notin Whitespace}
  IN  IF keep = {} THEN <<>>
      ELSE SubSeq(s, CHOOSE i \in keep : \A j \in keep : i <= j, Len(s))

\* s.rstrip(): up to the last character that is no whitespace
RStrip(s) ==
  LET keep == {i \in 1..Len(s) : s[i] \notin Whitespace}
  IN  IF keep = {} THEN <<>>
      ELSE SubSeq(s, 1, CHOOSE i \in keep : \A j \in keep : i >= j)

\* s.strip()
Strip(s) == LStrip(RStrip(s))

\* s.rstrip(c): up to the last character that is not c
RStripChar(s, c) ==
  LET keep == {i \in 1..Len(s) : s[i] # c}
  IN  IF keep = {} THEN <<>>
      ELSE SubSeq(s, 1, CHOOSE i \in keep : \A j \in keep : i >= j)

\* s.replace(c, ""): every c removed
RemoveChar(s, c) == SelectSeq(s, LAMBDA x : x # c)

\* s.isalnum(): false for "", true when every character is alphanumeric
IsAlnum(s) == s # <<>> /\ \A i \in 1..Len(s) : s[i] \in AlnumChars

\* b.decode("utf-8", errors="replace")
Decode(b) ==
  [i \in 1..Len(b) |-> IF b[i] = InvalidByte THEN ReplacementChar ELSE b[i]]

\* ------------------------------------------------------------------------
\* String literals of the source
\* ------------------------------------------------------------------------

Claude == <<"c", "l", "a", "u", "d", "e">>

FlagPrint == <<"-", "-", "p", "r", "i", "n", "t">>

FlagPrintSessionId ==
  <<"-", "-", "p", "r", "i", "n", "t", "-",
    "s", "e", "s", "s", "i", "o", "n", "-", "i", "d">>

FlagSession == <<"-", "-", "s", "e", "s", "s", "i", "o", "n">>

StderrPrefix == <<"[", "s", "t", "d", "e", "r", "r", "]", " ">>

NotFoundMessage ==
  "Claude Code not found. Please ensure 'claude' is installed and in PATH."

PermissionMessage == "Permission denied when running Claude Code."

\* ------------------------------------------------------------------------
\* Executor._extract_session_id
\* ------------------------------------------------------------------------

\* len(line) > 10
MinIdLen == 10

\* len(line) < 100
MaxIdLen == 100

LooksLikeSessionId_offbyone(line) ==
  /\ Len(line) >= MinIdLen
  /\ Len(line) < MaxIdLen
  /\ IsAlnum(RemoveChar(line, "-"))

\* the condition of the if statement, on the stripped line
LooksLikeSessionId(line) ==
  /\ Len(line) > MinIdLen
  /\ Len(line) < MaxIdLen
  /\ IsAlnum(RemoveChar(line, "-"))

\* the for loop: the first stripped line that passes, else None
RECURSIVE ScanLines(_)
ScanLines(lines) ==
  IF lines = <<>> THEN None
  ELSE LET line == Strip(Head(lines))
       IN  IF LooksLikeSessionId(line) THEN line ELSE ScanLines(Tail(lines))

RECURSIVE ScanLines_last(_)
ScanLines_last(lines) ==
  IF lines = <<>> THEN None
  ELSE LET line == Strip(lines[Len(lines)])
       IN  IF LooksLikeSessionId(line) THEN line
           ELSE ScanLines_last(SubSeq(lines, 1, Len(lines) - 1))

_extract_session_id_last(output) == ScanLines_last(Split(output, "\n"))

_extract_session_id(output) == ScanLines(Split(output, "\n"))

\* ------------------------------------------------------------------------
\* Executor._build_args
\* ------------------------------------------------------------------------

_build_args_unnamed(name, sid, cmd, fr, rs) ==
  LET base == <<Claude, FlagPrint, cmd>>
  IN  IF fr THEN Append(base, FlagPrintSessionId)
      ELSE IF rs /\ Truthy(sid) THEN base \o <<FlagSession, sid>>
      ELSE base

_build_args_session_name(name, sid, cmd, fr, rs) ==
  LET base == <<Claude, FlagPrint, cmd>>
  IN  IF Truthy(name)
      THEN IF fr THEN Append(base, FlagPrintSessionId)
           ELSE IF rs THEN base \o <<FlagSession, name>>
           ELSE base
      ELSE base

_build_args_resume_first(name, sid, cmd, fr, rs) ==
  LET base == <<Claude, FlagPrint, cmd>>
  IN  IF Truthy(name)
      THEN IF rs /\ Truthy(sid) THEN base \o <<FlagSession, sid>>
           ELSE IF fr THEN Append(base, FlagPrintSessionId)
           ELSE base
      ELSE base

\* name and sid are self.session_name and self._session_id
_build_args(name, sid, cmd, fr, rs) ==
  LET base == <<Claude, FlagPrint, cmd>>
  IN  IF Truthy(name)
      THEN IF fr THEN Append(base, FlagPrintSessionId)
           ELSE IF rs /\ Truthy(sid) THEN base \o <<FlagSession, sid>>
           ELSE base
      ELSE base

\* ------------------------------------------------------------------------
\* Executor.run: the pieces of its body
\* ------------------------------------------------------------------------

SpawnError_unmapped(err) ==
  IF err = "FileNotFoundError"
  THEN [type |-> "ExecutionError", message |-> NotFoundMessage]
  ELSE [type |-> err, message |-> "errno"]

\* the two except clauses around create_subprocess_exec: the exception
\* that leaves run when the spawn raises err
SpawnError(err) ==
  IF err = "FileNotFoundError"
  THEN [type |-> "ExecutionError", message |-> NotFoundMessage]
  ELSE IF err = "PermissionError"
  THEN [type |-> "ExecutionError", message |-> PermissionMessage]
  ELSE [type |-> err, message |-> "errno"]

CallbackEnabled_always(pt, cb) == cb # None

\* if self.passthrough and on_output
CallbackEnabled(pt, cb) == pt /\ cb # None

\* line.rstrip("\n")
CallbackLine(line) == RStripChar(line, "\n")

OpenLog_append(dest) == dest

\* open(log_file, "w"): the destination is truncated
OpenLog(dest) == [dest EXCEPT !.content = <<>>]

\* log_handle.write(text); log_handle.flush()
WriteLog(handle, dest, text) ==
  IF handle = "open"
  THEN [dest EXCEPT !.content = @ \o text]
  ELSE [dest EXCEPT !.late_writes = @ + 1]

StderrLogEntry_bare(line) == line

\* f"[stderr] {line}"
StderrLogEntry(line) == StderrPrefix \o line

Finally_leak(handle, dest) == [handle |-> handle, dest |-> dest]

\* the finally clause: if log_handle: log_handle.close()
Finally(handle, dest) ==
  IF handle # "None"
  THEN [handle |-> "closed", dest |-> [dest EXCEPT !.closes = @ + 1]]
  ELSE [handle |-> handle, dest |-> dest]

JoinLines_newline(lines) ==
  Join([i \in 1..Len(lines) |-> lines[i] \o <<"\n">>])

\* "".join(output_lines), "".join(error_lines)
JoinLines(lines) == Join(lines)

ExtractedId_any_run(name, fr, output) == _extract_session_id(output)

ExtractedId_unnamed(name, fr, output) ==
  IF fr THEN _extract_session_id(output) ELSE None

\* session_id = None; if first_run and self.session_name:
\*     session_id = self._extract_session_id(output)
ExtractedId(name, fr, output) ==
  IF fr /\ Truthy(name) THEN _extract_session_id(output) ELSE None

CachedId_clear(sid, session_id) == session_id

\* if session_id: self._session_id = session_id
CachedId(sid, session_id) == IF Truthy(session_id) THEN session_id ELSE sid

ExitCode_dropped(rc) == 0

\* process.returncode or 0; rc is <<>> for a returncode of None
ExitCode(rc) == IF rc = <<>> \/ rc[1] = 0 THEN 0 ELSE rc[1]

\* ------------------------------------------------------------------------
\* Inputs
\* ------------------------------------------------------------------------

\* the session names an Executor is constructed with: None, "", "s1"
SessionNames == {None, <<>>, <<"s", "1">>}

\* the prompt passed to run
Commands == {<<"f", "i", "x">>}

\* the log_file and on_output arguments: absent or present
LogPath == <<"run.log">>
CallbackFn == <<"on_output">>

\* what the log destination holds before run is called
OldLogContent == <<"o", "l", "d", "\n">>

\* two identifiers as the subprocess prints them
IdA == <<"a", "b", "c", "d", "e", "-", "1", "2", "3", "4", "5">>
IdB == <<"f", "0", "0", "-", "b", "a", "7", "-", "c", "0", "d", "e">>

\* the byte lines the subprocess writes to stdout: an identifier, a padded
\* identifier, a line that is none and has an invalid byte, and a last line
\* without terminator
StdoutLines ==
  { IdA \o <<"\n">>,
    <<" ">> \o IdB \o <<" ", "\n">>,
    <<"h", "i", " ", InvalidByte, "\n">>,
    <<"o", "k">> }

\* the byte lines the subprocess writes to stderr
StderrLines ==
  { <<"E", ":", InvalidByte, "\n">>,
    <<"E", "!">> }

ExitCodes == {0, 1}

\* process.returncode after the wait: a code, or None when none is available
ReturnCodes == {<<c>> : c \in ExitCodes} \cup {<<>>}

\* the OS errors create_subprocess_exec raises
SpawnErrors == {"FileNotFoundError", "PermissionError", "OSError"}

\* a line that ends with its terminator
Terminated(l) == l # <<>> /\ l[Len(l)] = "\n"

\* a stream accepts a new line when the last one written was terminated
CanStartLine(written) ==
  IF written = <<>> THEN TRUE ELSE Terminated(written[Len(written)])

\* ------------------------------------------------------------------------
\* State
\* ------------------------------------------------------------------------

VARIABLES
  session_name,    \* Executor.session_name
  passthrough,     \* Executor.passthrough
  _session_id,     \* Executor._session_id
  command,         \* run's arguments
  first_run,
  resume,
  log_file,
  on_output,
  pc,              \* where run is: idle, spawn, stdout, stderr, wait,
                   \* done (returned), raised
  args,            \* run's locals
  output_lines,
  error_lines,
  log_handle,      \* "None", or the state of the file object
  result,          \* <<>>, or <<r>> once run returned r
  raised,          \* <<>>, or <<e>> once run raised e
  proc,            \* the subprocess: none, running, blocked (in a write
                   \* to a full stderr pipe), stdout_closed (running, its
                   \* stdout closed), blocked_closed (both), exited
  stdout_pipe,     \* lines written and not yet read
  stderr_pipe,
  returncode,      \* process.returncode: <<>> for None, <<c>> for the code c
  log_dest,        \* the log destination: content, calls of close(),
                   \* writes after close()
  cb_calls,        \* the arguments on_output was invoked with, in order
  wrote_out,       \* history: lines the subprocess wrote to stdout
  wrote_err,       \* history: lines the subprocess wrote to stderr
  sid_at_call,     \* history: _session_id when run was called
  last_extracted,  \* history: identifier of the last successful extraction
  os_error,        \* history: the error the spawn raised
  ex_pc,           \* _extract_session_id called on its own: off, call,
                   \* returned
  ex_lines,        \* the lines of the text it is called with
  ex_result        \* what it returned

execVars == <<session_name, passthrough, _session_id>>
argVars == <<command, first_run, resume, log_file, on_output>>
localVars == <<args, output_lines, error_lines, log_handle>>
procVars == <<proc, stdout_pipe, stderr_pipe, returncode, wrote_out, wrote_err>>
histVars == <<sid_at_call, last_extracted, os_error>>
exVars == <<ex_pc, ex_lines, ex_result>>

vars ==
  <<execVars, argVars, localVars, procVars, histVars, exVars,
    pc, result, raised, log_dest, cb_calls>>

\* the state of a freshly constructed Executor that has run nothing
Idle ==
  /\ _session_id = None
  /\ command = <<>>
  /\ first_run = FALSE
  /\ resume = FALSE
  /\ log_file = None
  /\ on_output = None
  /\ pc = "idle"
  /\ args = <<>>
  /\ output_lines = <<>>
  /\ error_lines = <<>>
  /\ log_handle = "None"
  /\ result = <<>>
  /\ raised = <<>>
  /\ proc = "none"
  /\ stdout_pipe = <<>>
  /\ stderr_pipe = <<>>
  /\ returncode = <<>>
  /\ log_dest = [content |-> OldLogContent, closes |-> 0, late_writes |-> 0]
  /\ cb_calls = <<>>
  /\ wrote_out = <<>>
  /\ wrote_err = <<>>
  /\ sid_at_call = None
  /\ last_extracted = None
  /\ os_error = "none"

\* Executor.__init__
Init ==
  /\ session_name \in SessionNames
  /\ passthrough \in BOOLEAN
  /\ Idle
  /\ ex_pc = "off"
  /\ ex_lines = <<>>
  /\ ex_result = None

\* ------------------------------------------------------------------------
\* Executor.run
\* ------------------------------------------------------------------------

\* run is called (one call at a time): arguments bound, start_time taken,
\* args built, create_subprocess_exec awaited
Call(cmd, fr, rs, lf, cb) ==
  /\ pc \in {"idle", "done", "raised"}
  /\ command' = cmd
  /\ first_run' = fr
  /\ resume' = rs
  /\ log_file' = lf
  /\ on_output' = cb
  /\ args' = _build_args(session_name, _session_id, cmd, fr, rs)
  /\ pc' = "spawn"
  /\ output_lines' = <<>>
  /\ error_lines' = <<>>
  /\ log_handle' = "None"
  /\ result' = <<>>
  /\ raised' = <<>>
  /\ proc' = "none"
  /\ stdout_pipe' = <<>>
  /\ stderr_pipe' = <<>>
  /\ returncode' = <<>>
  /\ log_dest' = [content |-> OldLogContent, closes |-> 0, late_writes |-> 0]
  /\ cb_calls' = <<>>
  /\ wrote_out' = <<>>
  /\ wrote_err' = <<>>
  /\ sid_at_call' = _session_id
  /\ os_error' = "none"
  /\ UNCHANGED <<execVars, last_extracted, exVars>>

\* create_subprocess_exec raises: the except clauses map the error
SpawnFails(err) ==
  /\ pc = "spawn"
  /\ os_error' = err
  /\ raised' = <<SpawnError(err)>>
  /\ pc' = "raised"
  /\ UNCHANGED <<execVars, argVars, localVars, procVars, exVars, sid_at_call,
                 last_extracted, result, log_dest, cb_calls>>

\* create_subprocess_exec returns; the line lists are created and the log
\* file, if one was given, is opened for writing
SpawnOk ==
  /\ pc = "spawn"
  /\ proc' = "running"
  /\ output_lines' = <<>>
  /\ error_lines' = <<>>
  /\ log_handle' = IF log_file # None THEN "open" ELSE "None"
  /\ log_dest' = IF log_file # None THEN OpenLog(log_dest) ELSE log_dest
  /\ pc' = "stdout"
  /\ UNCHANGED <<execVars, argVars, args, stdout_pipe, stderr_pipe, returncode,
                 wrote_out, wrote_err, histVars, exVars, result, raised,
                 cb_calls>>

\* create_subprocess_exec returns and open(log_file, "w") raises
SpawnOkOpenFails ==
  /\ pc = "spawn"
  /\ log_file # None
  /\ proc' = "running"
  /\ output_lines' = <<>>
  /\ error_lines' = <<>>
  /\ raised' = <<[type |-> "OSError", message |-> "open"]>>
  /\ pc' = "raised"
  /\ UNCHANGED <<execVars, argVars, args, log_handle, stdout_pipe, stderr_pipe,
                 returncode, wrote_out, wrote_err, histVars, exVars, result,
                 log_dest, cb_calls>>

\* the subprocess has closed its stdout
StdoutClosed == proc \in {"stdout_closed", "blocked_closed", "exited"}

\* stdout.readline() can return: a whole line is buffered, or the rest of
\* the stream after the subprocess closed it
StdoutLineReady ==
  /\ pc = "stdout"
  /\ stdout_pipe # <<>>
  /\ Terminated(Head(stdout_pipe)) \/ StdoutClosed

\* one turn of the stdout loop
ReadStdoutLine ==
  /\ StdoutLineReady
  /\ LET line == Decode(Head(stdout_pipe))
     IN  /\ output_lines' = Append(output_lines, line)
         /\ cb_calls' = IF CallbackEnabled(passthrough, on_output)
                        THEN Append(cb_calls, CallbackLine(line))
                        ELSE cb_calls
         /\ log_dest' = IF log_handle # "None"
                        THEN WriteLog(log_handle, log_dest, line)
                        ELSE log_dest
  /\ stdout_pipe' = Tail(stdout_pipe)
  /\ UNCHANGED <<execVars, argVars, args, error_lines, log_handle, proc,
                 stderr_pipe, returncode, wrote_out, wrote_err, histVars,
                 exVars, pc, result, raised>>

ReadStdoutLineCallbackRaises_logged ==
  /\ StdoutLineReady
  /\ CallbackEnabled(passthrough, on_output)
  /\ LET line == Decode(Head(stdout_pipe))
         logged == IF log_handle # "None"
                   THEN WriteLog(log_handle, log_dest, line)
                   ELSE log_dest
         fin == Finally(log_handle, logged)
     IN  /\ output_lines' = Append(output_lines, line)
         /\ cb_calls' = Append(cb_calls, CallbackLine(line))
         /\ log_handle' = fin.handle
         /\ log_dest' = fin.dest
  /\ stdout_pipe' = Tail(stdout_pipe)
  /\ raised' = <<[type |-> "CallbackError", message |-> "on_output"]>>
  /\ pc' = "raised"
  /\ UNCHANGED <<execVars, argVars, args, error_lines, proc, stderr_pipe,
                 returncode, wrote_out, wrote_err, histVars, exVars, result>>

\* one turn of the stdout loop in which on_output raises: the line is not
\* logged, the finally clause runs, the exception leaves run
ReadStdoutLineCallbackRaises ==
  /\ StdoutLineReady
  /\ CallbackEnabled(passthrough, on_output)
  /\ LET line == Decode(Head(stdout_pipe))
         fin == Finally(log_handle, log_dest)
     IN  /\ output_lines' = Append(output_lines, line)
         /\ cb_calls' = Append(cb_calls, CallbackLine(line))
         /\ log_handle' = fin.handle
         /\ log_dest' = fin.dest
  /\ stdout_pipe' = Tail(stdout_pipe)
  /\ raised' = <<[type |-> "CallbackError", message |-> "on_output"]>>
  /\ pc' = "raised"
  /\ UNCHANGED <<execVars, argVars, args, error_lines, proc, stderr_pipe,
                 returncode, wrote_out, wrote_err, histVars, exVars, result>>

\* stdout.readline() raises (a line over the stream's limit, a cancelled
\* task): the finally clause runs, the exception leaves run
StdoutReadRaises ==
  /\ pc = "stdout"
  /\ LET fin == Finally(log_handle, log_dest)
     IN  /\ log_handle' = fin.handle
         /\ log_dest' = fin.dest
  /\ raised' = <<[type |-> "ValueError", message |-> "stdout"]>>
  /\ pc' = "raised"
  /\ UNCHANGED <<execVars, argVars, args, output_lines, error_lines, procVars,
                 histVars, exVars, result, cb_calls>>

StdoutEOF_nowait ==
  /\ pc = "stdout"
  /\ stdout_pipe = <<>>
  /\ pc' = "stderr"
  /\ UNCHANGED <<execVars, argVars, localVars, procVars, histVars, exVars,
                 result, raised, log_dest, cb_calls>>

\* stdout.readline() returns b"": break
StdoutEOF ==
  /\ pc = "stdout"
  /\ stdout_pipe = <<>>
  /\ StdoutClosed
  /\ pc' = "stderr"
  /\ UNCHANGED <<execVars, argVars, localVars, procVars, histVars, exVars,
                 result, raised, log_dest, cb_calls>>

StderrLineReady_concurrent ==
  /\ pc \in {"stdout", "stderr"}
  /\ stderr_pipe # <<>>
  /\ Terminated(Head(stderr_pipe)) \/ proc = "exited"

StderrLineReady ==
  /\ pc = "stderr"
  /\ stderr_pipe # <<>>
  /\ Terminated(Head(stderr_pipe)) \/ proc = "exited"

\* one turn of the stderr loop
ReadStderrLine ==
  /\ StderrLineReady
  /\ LET line == Decode(Head(stderr_pipe))
     IN  /\ error_lines' = Append(error_lines, line)
         /\ log_dest' = IF log_handle # "None"
                        THEN WriteLog(log_handle, log_dest,
                                      StderrLogEntry(line))
                        ELSE log_dest
  /\ stderr_pipe' = Tail(stderr_pipe)
  /\ UNCHANGED <<execVars, argVars, args, output_lines, log_handle, proc,
                 stdout_pipe, returncode, wrote_out, wrote_err, histVars,
                 exVars, pc, result, raised, cb_calls>>

\* stderr.readline() raises
StderrReadRaises ==
  /\ pc = "stderr"
  /\ LET fin == Finally(log_handle, log_dest)
     IN  /\ log_handle' = fin.handle
         /\ log_dest' = fin.dest
  /\ raised' = <<[type |-> "ValueError", message |-> "stderr"]>>
  /\ pc' = "raised"
  /\ UNCHANGED <<execVars, argVars, args, output_lines, error_lines, procVars,
                 histVars, exVars, result, cb_calls>>

StderrEOF_nobreak ==
  /\ pc = "stderr"
  /\ stderr_pipe = <<>>
  /\ proc = "exited"
  /\ pc' = "stderr"
  /\ UNCHANGED <<execVars, argVars, localVars, procVars, histVars, exVars,
                 result, raised, log_dest, cb_calls>>

\* stderr.readline() returns b"": break, process.wait() awaited
StderrEOF ==
  /\ pc = "stderr"
  /\ stderr_pipe = <<>>
  /\ proc = "exited"
  /\ pc' = "wait"
  /\ UNCHANGED <<execVars, argVars, localVars, procVars, histVars, exVars,
                 result, raised, log_dest, cb_calls>>

\* process.wait() raises (the task is cancelled)
WaitRaises ==
  /\ pc = "wait"
  /\ LET fin == Finally(log_handle, log_dest)
     IN  /\ log_handle' = fin.handle
         /\ log_dest' = fin.dest
  /\ raised' = <<[type |-> "CancelledError", message |-> "wait"]>>
  /\ pc' = "raised"
  /\ UNCHANGED <<execVars, argVars, args, output_lines, error_lines, procVars,
                 histVars, exVars, result, cb_calls>>

\* process.wait() returns, the exited subprocess is reaped and
\* process.returncode is rc from then on: the finally clause, the joins,
\* the extraction, the update of the cached identifier and the return
WaitReturns(rc) ==
  /\ pc = "wait"
  /\ proc = "exited"
  /\ returncode' = rc
  /\ LET fin == Finally(log_handle, log_dest)
         output == JoinLines(output_lines)
         error_output == JoinLines(error_lines)
         session_id == ExtractedId(session_name, first_run, output)
     IN  /\ log_handle' = fin.handle
         /\ log_dest' = fin.dest
         /\ _session_id' = CachedId(_session_id, session_id)
         /\ last_extracted' =
              IF Truthy(session_id) THEN session_id ELSE last_extracted
         /\ result' = <<[output |-> output,
                         exit_code |-> ExitCode(rc),
                         session_id |-> session_id,
                         error_output |-> error_output]>>
  /\ pc' = "done"
  /\ UNCHANGED <<session_name, passthrough, argVars, args, output_lines,
                 error_lines, proc, stdout_pipe, stderr_pipe, wrote_out,
                 wrote_err, sid_at_call, os_error, exVars, raised, cb_calls>>

\* ------------------------------------------------------------------------
\* The subprocess
\* ------------------------------------------------------------------------

\* run is between the spawn and its return or raise: what the subprocess
\* does later is seen by nobody and is left out
Attached == pc \in {"stdout", "stderr", "wait"}

\* the subprocess writes a line to stdout
ProcWriteStdout(l) ==
  /\ Attached
  /\ proc = "running"
  /\ Len(wrote_out) < MaxStdoutLines
  /\ Len(stdout_pipe) < PipeCapacity
  /\ CanStartLine(wrote_out)
  /\ stdout_pipe' = Append(stdout_pipe, l)
  /\ wrote_out' = Append(wrote_out, l)
  /\ UNCHANGED <<execVars, argVars, localVars, proc, stderr_pipe, returncode,
                 wrote_err, histVars, exVars, pc, result, raised, log_dest,
                 cb_calls>>

\* the subprocess closes its stdout and runs on
ProcCloseStdout ==
  /\ Attached
  /\ proc = "running"
  /\ proc' = "stdout_closed"
  /\ UNCHANGED <<execVars, argVars, localVars, stdout_pipe, stderr_pipe,
                 returncode, wrote_out, wrote_err, histVars, exVars, pc,
                 result, raised, log_dest, cb_calls>>

\* the subprocess writes a line to stderr
ProcWriteStderr(l) ==
  /\ Attached
  /\ proc \in {"running", "stdout_closed"}
  /\ Len(wrote_err) < MaxStderrLines
  /\ Len(stderr_pipe) < PipeCapacity
  /\ CanStartLine(wrote_err)
  /\ stderr_pipe' = Append(stderr_pipe, l)
  /\ wrote_err' = Append(wrote_err, l)
  /\ UNCHANGED <<execVars, argVars, localVars, proc, stdout_pipe, returncode,
                 wrote_out, histVars, exVars, pc, result, raised, log_dest,
                 cb_calls>>

\* the subprocess starts to write a line to stderr while the stderr pipe is
\* full: the write blocks
ProcBlockStderr ==
  /\ Attached
  /\ proc \in {"running", "stdout_closed"}
  /\ Len(wrote_err) < MaxStderrLines
  /\ Len(stderr_pipe) = PipeCapacity
  /\ CanStartLine(wrote_err)
  /\ proc' = IF proc = "running" THEN "blocked" ELSE "blocked_closed"
  /\ UNCHANGED <<execVars, argVars, localVars, stdout_pipe, stderr_pipe,
                 returncode, wrote_out, wrote_err, histVars, exVars, pc,
                 result, raised, log_dest, cb_calls>>

\* the stderr pipe has room again: the blocked write of the line l completes
ProcUnblock(l) ==
  /\ Attached
  /\ proc \in {"blocked", "blocked_closed"}
  /\ Len(stderr_pipe) < PipeCapacity
  /\ stderr_pipe' = Append(stderr_pipe, l)
  /\ wrote_err' = Append(wrote_err, l)
  /\ proc' = IF proc = "blocked" THEN "running" ELSE "stdout_closed"
  /\ UNCHANGED <<execVars, argVars, localVars, stdout_pipe, returncode,
                 wrote_out, histVars, exVars, pc, result, raised, log_dest,
                 cb_calls>>

\* the subprocess exits, which closes both streams
ProcExit ==
  /\ Attached
  /\ proc \in {"running", "stdout_closed"}
  /\ proc' = "exited"
  /\ UNCHANGED <<execVars, argVars, localVars, stdout_pipe, stderr_pipe,
                 returncode, wrote_out, wrote_err, histVars, exVars, pc,
                 result, raised, log_dest, cb_calls>>

\* ------------------------------------------------------------------------
\* Specification
\* ------------------------------------------------------------------------

Next ==
  \/ \E cmd \in Commands, fr \in BOOLEAN, rs \in BOOLEAN,
        lf \in {None, LogPath}, cb \in {None, CallbackFn} :
       Call(cmd, fr, rs, lf, cb)
  \/ \E err \in SpawnErrors : SpawnFails(err)
  \/ SpawnOk
  \/ SpawnOkOpenFails
  \/ ReadStdoutLine
  \/ ReadStdoutLineCallbackRaises
  \/ StdoutReadRaises
  \/ StdoutEOF
  \/ ReadStderrLine
  \/ StderrReadRaises
  \/ StderrEOF
  \/ WaitRaises
  \/ \E rc \in ReturnCodes : WaitReturns(rc)
  \/ \E l \in StdoutLines : ProcWriteStdout(l)
  \/ ProcCloseStdout
  \/ \E l \in StderrLines : ProcWriteStderr(l)
  \/ ProcBlockStderr
  \/ \E l \in StderrLines : ProcUnblock(l)
  \/ ProcExit

Spec == Init /\ [][Next]_vars

TypeOK ==
  /\ pc \in {"idle", "spawn", "stdout", "stderr", "wait", "done", "raised"}
  /\ proc \in {"none", "running", "blocked", "stdout_closed",
               "blocked_closed", "exited"}
  /\ returncode \in ReturnCodes
  /\ log_handle \in {"None", "open", "closed"}
  /\ Len(result) <= 1
  /\ Len(raised) <= 1

\* ------------------------------------------------------------------------
\* Executor._extract_session_id on its own
\* ------------------------------------------------------------------------

\* line lengths around the two limits of the length test
ExtractLens == {MinIdLen - 1, MinIdLen, MinIdLen + 1, MaxIdLen - 1, MaxIdLen}

\* lines of n characters: letters, digits with a hyphen, hyphens only,
\* a space inside, an underscore at the end
ExtractBodies(n) ==
  { Rep("a", n),
    [Rep("7", n) EXCEPT ![2] = "-"],
    Rep("-", n),
    [Rep("a", n) EXCEPT ![2] = " "],
    [Rep("Z", n) EXCEPT ![n] = "_"] }

\* the lines of the texts: the bodies, and the letter lines padded with
\* whitespace
ExtractLines ==
  UNION { ExtractBodies(n) \cup {<<" ", "\t">> \o Rep("a", n) \o <<"\r">>} :
          n \in ExtractLens }

\* the text with these lines, each followed by its terminator
TextOf(lines) == Join([i \in 1..Len(lines) |-> lines[i] \o <<"\n">>])

InitExtract ==
  /\ session_name = None
  /\ passthrough = FALSE
  /\ Idle
  /\ ex_pc = "call"
  /\ ex_lines \in UNION { [1..n -> ExtractLines] : n \in 1..MaxExtractLines }
  /\ ex_result = None

\* the call returns
ExtractReturns ==
  /\ ex_pc = "call"
  /\ ex_result' = _extract_session_id(TextOf(ex_lines))
  /\ ex_pc' = "returned"
  /\ UNCHANGED <<execVars, argVars, localVars, procVars, histVars, ex_lines,
                 pc, result, raised, log_dest, cb_calls>>

NextExtract == ExtractReturns

SpecExtract == InitExtract /\ [][NextExtract]_vars

\* ------------------------------------------------------------------------
\* One call of run under the scheduling of the event loop
\* ------------------------------------------------------------------------

\* a new Executor without a session name: its calls extract nothing
InitLive == Init /\ session_name = None

\* the first call of run on the Executor
FirstCall(cmd, fr, rs, lf, cb) ==
  /\ pc = "idle"
  /\ Call(cmd, fr, rs, lf, cb)

NextLive ==
  \/ \E cmd \in Commands, fr \in BOOLEAN, rs \in BOOLEAN,
        lf \in {None, LogPath}, cb \in {None, CallbackFn} :
       FirstCall(cmd, fr, rs, lf, cb)
  \/ \E err \in SpawnErrors : SpawnFails(err)
  \/ SpawnOk
  \/ SpawnOkOpenFails
  \/ ReadStdoutLine
  \/ ReadStdoutLineCallbackRaises
  \/ StdoutReadRaises
  \/ StdoutEOF
  \/ ReadStderrLine
  \/ StderrReadRaises
  \/ StderrEOF
  \/ WaitRaises
  \/ \E rc \in ReturnCodes : WaitReturns(rc)
  \/ \E l \in StdoutLines : ProcWriteStdout(l)
  \/ ProcCloseStdout
  \/ \E l \in StderrLines : ProcWriteStderr(l)
  \/ ProcBlockStderr
  \/ \E l \in StderrLines : ProcUnblock(l)
  \/ ProcExit

\* the event loop resumes run when the read or the wait it is suspended in
\* can complete: a readline() that has a line or the end of its stream
\* returns, a wait() on an exited subprocess returns. Nothing obliges a
\* read, the callback or the wait to raise. The subprocess is one that
\* exits in the end: a blocked write completes once the pipe has room, and
\* a subprocess that is not blocked exits after it has written what it
\* chose to write.
Fairness ==
  /\ WF_vars(ReadStdoutLine)
  /\ WF_vars(StdoutEOF)
  /\ WF_vars(ReadStderrLine)
  /\ WF_vars(StderrEOF)
  /\ WF_vars(\E rc \in ReturnCodes : WaitReturns(rc))
  /\ WF_vars(\E l \in StderrLines : ProcUnblock(l))
  /\ WF_vars(ProcExit)

SpecLive == InitLive /\ [][NextLive]_vars /\ Fairness

\* ------------------------------------------------------------------------
\* Properties
\* ------------------------------------------------------------------------

\* the session flags of the argument list: what follows
\* [claude, --print, command]
SessionFlags == SubSeq(args, 4, Len(args))

\* run was called with a session name configured on the Executor
Named == Truthy(session_name)

\* a line with its one terminator, if it has one, removed
ChopTerminator(l) ==
  IF l # <<>> /\ l[Len(l)] = "\n" THEN SubSeq(l, 1, Len(l) - 1) ELSE l

\* the text the subprocess wrote to a stream, decoded
WrittenText(written) ==
  Join([i \in 1..Len(written) |-> Decode(written[i])])

\* sub occurs in s
Contains(s, sub) ==
  \E i \in 0..(Len(s) - Len(sub)) : SubSeq(s, i + 1, i + Len(sub)) = sub

\* l has the shape of an identifier: 11 to 99 characters, each a letter, a
\* digit or a hyphen, and not hyphens only
IdShaped(l) ==
  /\ Len(l) >= 11
  /\ Len(l) <= 99
  /\ \A i \in 1..Len(l) : l[i] \in AlnumChars \cup {"-"}
  /\ \E i \in 1..Len(l) : l[i] \in AlnumChars

\* the first identifier-shaped line the subprocess wrote to stdout, trimmed
FirstIdWritten ==
  LET shaped == {i \in 1..Len(wrote_out) : IdShaped(Strip(Decode(wrote_out[i])))}
  IN  IF shaped = {} THEN None
      ELSE Strip(Decode(wrote_out[CHOOSE i \in shaped :
                                    \A j \in shaped : i <= j]))

\* C1: the cached session identifier changes only in the return of a call
\* that has first_run set on an Executor with a session name, and then to
\* the identifier that call extracted and returns; no step of any other
\* call changes it.
C1_CachedIdWrittenOnlyByNamedFirstRun ==
  [][ _session_id' # _session_id =>
        /\ pc = "wait" /\ pc' = "done"
        /\ first_run /\ Named
        /\ result'[1].session_id = _session_id'
        /\ _session_id' = FirstIdWritten ]_vars

\* a first_run call on a named Executor has replaced a cached identifier
C1_Witness ==
  /\ pc = "done" /\ first_run /\ Named
  /\ sid_at_call # None
  /\ _session_id # sid_at_call

\* C2: with a session name, a call with first_run set has
\* --print-session-id among its arguments; without a session name no
\* call has it among the session flags.
C2_PrintSessionIdFlag ==
  pc # "idle" =>
    /\ Named /\ first_run => \E i \in 1..Len(args) : args[i] = FlagPrintSessionId
    /\ ~Named => \A i \in 1..Len(SessionFlags) :
                    SessionFlags[i] # FlagPrintSessionId

\* a first_run call on a named Executor is about to spawn with the flag
C2_Witness ==
  /\ pc = "spawn" /\ Named /\ first_run
  /\ args = <<Claude, FlagPrint, command, FlagPrintSessionId>>

\* C3 as claimed: every call with resume set appends --session and the
\* cached identifier when one is cached, and no session flag when none is.
C3_Claimed ==
  pc # "idle" /\ resume =>
    IF sid_at_call # None
    THEN SessionFlags = <<FlagSession, sid_at_call>>
    ELSE SessionFlags = <<>>

\* C3 amended: every call with resume set and first_run not set appends
\* --session and the cached identifier when one is cached, and no session
\* flag when none is.
C3_ResumeAppendsCachedId ==
  pc # "idle" /\ resume /\ ~first_run =>
    IF sid_at_call # None
    THEN SessionFlags = <<FlagSession, sid_at_call>>
    ELSE SessionFlags = <<>>

\* a resume call with a cached identifier is about to spawn
C3_Witness ==
  /\ pc = "spawn" /\ resume /\ ~first_run
  /\ sid_at_call = IdA
  /\ args = <<Claude, FlagPrint, command, FlagSession, IdA>>

\* C4: a first_run call on a named Executor that returns after the
\* subprocess wrote an identifier-shaped line returns the first such line,
\* trimmed, and caches it; a resume call on a named Executor is spawned
\* with [claude, --print, command, --session, X] for the X of the last
\* successful extraction.
C4_SessionContinuity ==
  /\ pc = "done" /\ first_run /\ Named /\ FirstIdWritten # None =>
       /\ result[1].session_id = FirstIdWritten
       /\ _session_id = FirstIdWritten
       /\ last_extracted = FirstIdWritten
  /\ pc # "idle" /\ resume /\ ~first_run /\ Named /\ last_extracted # None =>
       args = <<Claude, FlagPrint, command, FlagSession, last_extracted>>

\* a resume call is about to spawn with the identifier of the second of
\* two successful extractions
C4_Witness ==
  /\ pc = "spawn" /\ resume /\ ~first_run
  /\ last_extracted = IdB
  /\ args = <<Claude, FlagPrint, command, FlagSession, IdB>>

\* C5: when run returns, output is the stdout lines joined in the order
\* written and error_output the stderr lines joined in the order written;
\* no stderr line is in output and no stdout line in error_output.
C5_OutputAccumulation ==
  pc = "done" =>
    /\ result[1].output = WrittenText(wrote_out)
    /\ result[1].error_output = WrittenText(wrote_err)
    /\ \A i \in 1..Len(wrote_err) :
         ~Contains(result[1].output, Decode(wrote_err[i]))
    /\ \A i \in 1..Len(wrote_out) :
         ~Contains(result[1].error_output, Decode(wrote_out[i]))

\* run returned after two stdout lines and a stderr line
C5_Witness ==
  /\ pc = "done"
  /\ Len(wrote_out) >= 2
  /\ Len(wrote_err) >= 1
  /\ result[1].output # <<>>
  /\ result[1].error_output # <<>>

\* C6: under passthrough with a callback, the callback's invocations are
\* the stdout lines read so far, in order, each without its terminator;
\* otherwise there is none.
C6_CallbackPerStdoutLine ==
  /\ Len(output_lines) <= Len(wrote_out)
  /\ pc = "done" => Len(output_lines) = Len(wrote_out)
  /\ cb_calls =
       IF passthrough /\ on_output # None
       THEN [i \in 1..Len(output_lines) |-> ChopTerminator(Decode(wrote_out[i]))]
       ELSE <<>>

\* run returned after the callback got two stdout lines and a stderr line
\* was read
C6_Witness ==
  /\ pc = "done"
  /\ Len(cb_calls) = 2
  /\ error_lines # <<>>
  /\ Terminated(output_lines[1])

\* C7: when run returns and a log destination was given, the destination
\* holds the stdout lines in order followed by the stderr lines in order,
\* each of these prefixed with "[stderr] ", and nothing else.
C7_LogContents ==
  pc = "done" /\ log_file # None =>
    log_dest.content =
      WrittenText(wrote_out)
        \o Join([i \in 1..Len(wrote_err) |-> StderrPrefix \o Decode(wrote_err[i])])

\* run returned with a log holding stdout and stderr lines
C7_Witness ==
  /\ pc = "done" /\ log_file # None
  /\ wrote_out # <<>>
  /\ wrote_err # <<>>
  /\ Contains(log_dest.content, StderrPrefix)

\* C8: a log that was opened is closed when run has returned or raised;
\* close() is called once on it and never twice, and nothing is written
\* after close().
C8_LogClosedOnce ==
  /\ pc \in {"done", "raised"} => log_handle # "open"
  /\ pc = "done" /\ log_file # None => log_handle = "closed"
  /\ log_dest.closes = IF log_handle = "closed" THEN 1 ELSE 0
  /\ log_dest.late_writes = 0

\* run raised while draining stderr, with the log closed
C8_Witness ==
  /\ pc = "raised"
  /\ raised = <<[type |-> "ValueError", message |-> "stderr"]>>
  /\ log_handle = "closed"
  /\ log_dest.content # <<>>

\* C9: a spawn that raises FileNotFoundError makes run raise
\* ExecutionError with the not-found message, one that raises
\* PermissionError makes it raise ExecutionError with the
\* permission-denied message; run returns no result.
C9_SpawnFailureMapping ==
  /\ os_error = "FileNotFoundError" =>
       /\ pc = "raised"
       /\ raised = <<[type |-> "ExecutionError", message |-> NotFoundMessage]>>
       /\ result = <<>>
  /\ os_error = "PermissionError" =>
       /\ pc = "raised"
       /\ raised = <<[type |-> "ExecutionError", message |-> PermissionMessage]>>
       /\ result = <<>>

\* run raised ExecutionError for a denied permission
C9_Witness ==
  /\ os_error = "PermissionError"
  /\ raised = <<[type |-> "ExecutionError", message |-> PermissionMessage]>>

\* l has a space inside
HasInnerSpace(l) == \E i \in 2..(Len(l) - 1) : l[i] = " "

\* l is a candidate as C10 words it: 11 to 99 characters, each a letter, a
\* digit or a hyphen
Candidate(l) ==
  /\ Len(l) >= 11
  /\ Len(l) <= 99
  /\ \A i \in 1..Len(l) : l[i] \in AlnumChars \cup {"-"}

\* C10 as claimed: the first trimmed line that is a candidate is what
\* _extract_session_id returns; a trimmed line of 9 characters or with a
\* space inside is never what it returns.
C10_Claimed ==
  ex_pc = "returned" =>
    \A i \in 1..Len(ex_lines) :
      LET l == Strip(ex_lines[i])
      IN  /\ (Candidate(l) /\ \A j \in 1..(i - 1) : ~Candidate(Strip(ex_lines[j])))
               => ex_result = l
          /\ (Len(l) = 9 \/ HasInnerSpace(l)) => ex_result # l

\* C10 amended: the first trimmed line that is a candidate with at least
\* one letter or digit is what _extract_session_id returns; a trimmed line
\* of 9 characters or with a space inside is never what it returns.
C10_ExtractionCorrectness ==
  ex_pc = "returned" =>
    \A i \in 1..Len(ex_lines) :
      LET l == Strip(ex_lines[i])
      IN  /\ (IdShaped(l) /\ \A j \in 1..(i - 1) : ~IdShaped(Strip(ex_lines[j])))
               => ex_result = l
          /\ (Len(l) = 9 \/ HasInnerSpace(l)) => ex_result # l

\* a line of 99 characters with a hyphen was returned after a line of
\* hyphens only was passed over
C10_Witness ==
  /\ ex_pc = "returned"
  /\ Len(ex_lines) = 2
  /\ ex_lines[1] = Rep("-", 11)
  /\ Len(ex_result) = 99
  /\ ex_result[2] = "-"

\* C11: when run returns, exit_code is the code process.returncode holds
\* after the wait, and 0 when it holds None.
C11_ExitCodePassthrough ==
  pc = "done" =>
    /\ returncode # <<>> => result[1].exit_code = returncode[1]
    /\ returncode = <<>> => result[1].exit_code = 0

\* run returned the exit code 1 of its subprocess
C11_Witness ==
  /\ pc = "done"
  /\ returncode = <<1>>
  /\ result[1].exit_code = 1

\* C12: when run returns, session_id is present only in a first_run call
\* on a named Executor whose subprocess wrote an identifier-shaped line,
\* and then it is the cached identifier; it is absent in every call
\* without first_run, on every Executor without a session name and when
\* no line has the shape.
C12_ResultSessionId ==
  pc = "done" =>
    LET sid == result[1].session_id
    IN  /\ sid # None =>
             /\ first_run /\ Named
             /\ sid = FirstIdWritten
             /\ sid = _session_id
        /\ ~first_run => sid = None
        /\ ~Named => sid = None
        /\ FirstIdWritten = None => sid = None

\* a resume call that passed the cached identifier, and whose subprocess
\* printed an identifier-shaped line, returned without a session_id
C12_Witness ==
  /\ pc = "done" /\ resume /\ ~first_run
  /\ SessionFlags = <<FlagSession, IdA>>
  /\ FirstIdWritten # None
  /\ result[1].session_id = None

\* stdout has reached its end: the subprocess closed it and nothing is
\* left to read
StdoutAtEnd == StdoutClosed /\ stdout_pipe = <<>>

\* stderr has reached its end
StderrAtEnd == proc = "exited" /\ stderr_pipe = <<>>

\* C13: a stderr line is read only when stdout is at its end; run starts
\* to wait only when stderr is at its end too; the result is made and the
\* cached identifier changed only in the step in which the wait returns.
C13_PhaseOrder ==
  [][ /\ Len(error_lines') > Len(error_lines) => StdoutAtEnd
      /\ (pc' = "wait" /\ pc # "wait") => StdoutAtEnd /\ StderrAtEnd
      /\ (_session_id' # _session_id \/ (result' # <<>> /\ result = <<>>)) =>
           /\ pc = "wait" /\ pc' = "done"
           /\ StdoutAtEnd /\ StderrAtEnd
           /\ Len(output_lines) = Len(wrote_out)
           /\ Len(error_lines) = Len(wrote_err) ]_vars

\* a first_run call went through all phases: it read stdout and stderr
\* lines, waited, and cached the identifier it extracted
C13_Witness ==
  /\ pc = "done" /\ first_run /\ Named
  /\ output_lines # <<>>
  /\ error_lines # <<>>
  /\ _session_id # sid_at_call

\* run is blocked in stdout.readline(): stdout is open and holds no whole
\* line
ReaderBlocked ==
  /\ pc = "stdout"
  /\ ~StdoutClosed
  /\ IF stdout_pipe = <<>> THEN TRUE ELSE ~Terminated(Head(stdout_pipe))

\* the subprocess is blocked writing to the full stderr pipe with its
\* stdout open, and run is blocked reading stdout
Deadlocked ==
  /\ proc = "blocked"
  /\ Len(stderr_pipe) = PipeCapacity
  /\ ReaderBlocked

\* C14: a subprocess that has filled the stderr pipe and writes more to it
\* with its stdout open stays blocked as long as run reads stdout, and run
\* never gets to stderr; once run is blocked too, nothing moves any more:
\* no line is written or read and run does not return (it can only be
\* made to raise from outside).
C14_SequentialDrainDeadlock ==
  [][ /\ (proc = "blocked" /\ pc = "stdout") =>
           /\ proc' = "blocked"
           /\ pc' \in {"stdout", "raised"}
           /\ UNCHANGED <<stderr_pipe, wrote_err, error_lines, result>>
      /\ Deadlocked =>
           UNCHANGED <<stdout_pipe, wrote_out, output_lines, cb_calls>> ]_vars

\* the deadlock: the subprocess wrote a stdout line that run has read,
\* filled the stderr pipe and blocks on the next stderr line; run waits
\* for more stdout
C14_Witness ==
  /\ Deadlocked
  /\ Len(wrote_err) = PipeCapacity
  /\ output_lines # <<>>
  /\ stdout_pipe = <<>>

\* C15: a call with first_run and resume both set on a named Executor has
\* --print-session-id as its only session flag and no --session, a cached
\* identifier or not; when it returns it has extracted as a first_run
\* call does, and cached what it found.
C15_FirstRunPrecedence ==
  pc # "idle" /\ first_run /\ resume /\ Named =>
    /\ SessionFlags = <<FlagPrintSessionId>>
    /\ \A i \in 1..Len(args) : args[i] # FlagSession
    /\ pc = "done" =>
         /\ result[1].session_id = FirstIdWritten
         /\ _session_id =
              IF FirstIdWritten # None THEN FirstIdWritten ELSE sid_at_call

\* a call with both set, made with IdA cached, returned with IdB cached
C15_Witness ==
  /\ pc = "done" /\ first_run /\ resume /\ Named
  /\ sid_at_call = IdA
  /\ _session_id = IdB
  /\ SessionFlags = <<FlagPrintSessionId>>

\* C16 as claimed: after a call that was given a log destination, returned
\* or raised, the previous contents of the destination are gone.
C16_Claimed ==
  log_file # None /\ pc \in {"done", "raised"} =>
    ~Contains(log_dest.content, OldLogContent)

\* C16 amended: the destination is opened, and truncated, after the spawn
\* succeeded: while the spawn is awaited and after a spawn that failed it
\* is not opened and holds what it held; once it is opened its previous
\* contents are gone, whatever the outcome of the call; a call that
\* returns has opened it.
C16_LogTruncatedAfterSpawn ==
  /\ pc = "spawn" =>
       log_handle = "None" /\ log_dest.content = OldLogContent
  /\ os_error # "none" =>
       log_handle = "None" /\ log_dest.content = OldLogContent
  /\ log_handle # "None" => ~Contains(log_dest.content, OldLogContent)
  /\ pc = "done" /\ log_file # None => log_handle # "None"

\* run raised in the stdout loop before any line was logged: the log is
\* closed and empty
C16_Witness ==
  /\ pc = "raised" /\ log_file # None
  /\ raised = <<[type |-> "ValueError", message |-> "stdout"]>>
  /\ log_handle = "closed"
  /\ log_dest.content = <<>>

\* the positions of the identifier-shaped lines of a text, once trimmed
ShapedAt(lines) == {i \in 1..Len(lines) : IdShaped(Strip(lines[i]))}

\* C17: the call returns the earliest identifier-shaped line of the text,
\* trimmed, whatever shaped lines follow it, and None when no line has the
\* shape.
C17_FirstMatchInLineOrder ==
  ex_pc = "returned" =>
    IF ShapedAt(ex_lines) = {} THEN ex_result = None
    ELSE \E i \in ShapedAt(ex_lines) :
           /\ \A j \in ShapedAt(ex_lines) : i <= j
           /\ ex_result = Strip(ex_lines[i])

\* two different identifier-shaped lines, the first padded with
\* whitespace: the call returned the first, trimmed
C17_Witness ==
  /\ ex_pc = "returned"
  /\ Len(ex_lines) = 2
  /\ ShapedAt(ex_lines) = {1, 2}
  /\ Strip(ex_lines[1]) # ex_lines[1]
  /\ Strip(ex_lines[1]) # Strip(ex_lines[2])
  /\ ex_result = Strip(ex_lines[1])

\* the subprocess is blocked in a write to the full stderr pipe with its
\* stdout open: its stderr output exceeds the pipe capacity
StderrOverCapacity == proc = "blocked"

\* run has returned an ExecutionResult
Returned == pc = "done" /\ Len(result) = 1

\* C18 as claimed: with a subprocess that exits in the end, run, once it
\* reads stdout, returns an ExecutionResult in the end unless the
\* subprocess gets blocked on stderr with stdout open; and as long as the
\* subprocess has not closed stdout, run has neither returned nor raised.
C18_Claimed ==
  /\ pc = "stdout" ~> (Returned \/ StderrOverCapacity)
  /\ [](proc # "none" /\ ~StdoutClosed => pc \notin {"done", "raised"})

\* C18 amended: with a subprocess that exits in the end, run, once it
\* reads stdout, returns an ExecutionResult or raises in the end unless
\* the subprocess gets blocked on stderr with stdout open; and as long as
\* the subprocess has not closed stdout, run has not returned.
C18_Termination ==
  /\ pc = "stdout" ~> (Returned \/ pc = "raised" \/ StderrOverCapacity)
  /\ [](proc # "none" /\ ~StdoutClosed => ~Returned)

\* run returned after the subprocess wrote all its stdout lines and more
\* stderr lines than the pipe holds, these after it closed stdout
C18_Witness ==
  /\ Returned
  /\ proc = "exited"
  /\ Len(output_lines) = MaxStdoutLines
  /\ Len(error_lines) > PipeCapacity

\* a first_run call on a named Executor has returned and the subprocess
\* wrote no identifier-shaped line to stdout
ReturnedWithoutId ==
  pc = "done" /\ first_run /\ Named /\ FirstIdWritten = None

\* C19: a first_run call on a named Executor whose output has no
\* identifier-shaped line returns no session_id and leaves the cached
\* identifier as it was at the call; a resume call that comes next is
\* spawned with --session and that identifier.
C19_StaleIdentifierKept ==
  /\ [](ReturnedWithoutId =>
          /\ result[1].session_id = None
          /\ _session_id = sid_at_call)
  /\ [][ /\ ReturnedWithoutId /\ sid_at_call # None
         /\ pc' = "spawn" /\ resume' /\ ~first_run'
         => args' = <<Claude, FlagPrint, command', FlagSession, sid_at_call>>
     ]_vars

\* a first_run call returned without an identifier, after output, on an
\* Executor that had IdA cached: IdA is still cached
C19_Witness ==
  /\ ReturnedWithoutId
  /\ wrote_out # <<>>
  /\ sid_at_call = IdA
  /\ _session_id = IdA
  /\ result[1].session_id = None

\* run has raised what on_output raised
CallbackRaised ==
  pc = "raised" /\ raised = <<[type |-> "CallbackError", message |-> "on_output"]>>

\* C20: when on_output raises on stdout line k, run raises with k lines
\* read and k callback calls made; the log, if one was given, is closed
\* once and holds the first k-1 lines the subprocess wrote to stdout and
\* nothing else; no stderr line was read, the process was not waited for,
\* no result was returned and the cached identifier is the one of the call.
C20_CallbackExceptionPropagates ==
  CallbackRaised =>
    LET k == Len(cb_calls)
    IN  /\ k >= 1
        /\ Len(output_lines) = k
        /\ k <= Len(wrote_out)
        /\ output_lines = [i \in 1..k |-> Decode(wrote_out[i])]
        /\ IF log_file # None
           THEN /\ log_handle = "closed"
                /\ log_dest.closes = 1
                /\ log_dest.late_writes = 0
                /\ log_dest.content = WrittenText(SubSeq(wrote_out, 1, k - 1))
           ELSE /\ log_handle = "None"
                /\ log_dest.content = OldLogContent
        /\ error_lines = <<>>
        /\ returncode = <<>>
        /\ result = <<>>
        /\ _session_id = sid_at_call

\* on_output raised on the second line, with a log and with stderr output
\* waiting in the pipe: the log holds the first line only
C20_Witness ==
  /\ CallbackRaised
  /\ log_file # None
  /\ Len(cb_calls) = 2
  /\ stderr_pipe # <<>>
  /\ log_dest.content = Decode(wrote_out[1])

====
